---- MODULE Spec2Model ----
(***************************************************************************)
(* A model of src/pluto.py: the pool of StreamSession slots with their     *)
(* per-region token caches, the Client-level metadata cache in front of    *)
(* slot 0, the per-region channel catalog, the multi-region merge and the  *)
(* windowed, batched guide fetch of update_epg.                            *)
(*                                                                         *)
(* Time is counted in whole hours.  Python dicts are functions whose       *)
(* DOMAIN is the set of keys present; Python's None is the string "None".  *)
(***************************************************************************)
EXTENDS Integers, Sequences, FiniteSets, TLC

\* ------------------------------------------------------------------ bounds
\* Number of StreamSession slots in the pool.  The source ships 10 ("adjust
\* to taste"); every statement below is in terms of the pool size N.
STREAM_POOL_SIZE == 2
\* Latest hour the clock reaches.
MaxTime == 4
\* Number of API calls made in one behaviour.
MaxCalls == 3

\* --------------------------------------------------------------- constants
\* timedelta(hours=4): a cached response is fresh while its age is below it.
FRESH_HOURS == 4

None == "None"
Regions == {"uk", "local"}
Slots == 0..(STREAM_POOL_SIZE - 1)

VARIABLES
    now,            \* datetime.now(UTC), in hours
    pool,           \* Client._pool: slot index -> [response_list, sessionAt]
    pool_index,     \* Client._pool_index
    response_list,  \* Client.response_list
    sessionAt,      \* Client.sessionAt
    all_channels,   \* Client.all_channels: insertion-ordered dict region -> catalog
    epg_data,       \* Client.epg_data: region -> list of timeline pages
    pool_lock,      \* Client._pool_lock: the thread holding it, or Unheld
    threads,        \* the callers of get_stream_token: position and locals
    calls,          \* history: number of API calls made so far
    served,         \* history: slot index booted by each get_stream_token call
    last            \* history: what the API call of the latest step did and returned

vars == <<now, pool, pool_index, response_list, sessionAt, all_channels,
          epg_data, pool_lock, threads, calls, served, last>>

\* ------------------------------------------------------------ dict helpers
\* d[k] = v on a Python dict.
DictSet(d, k, v) == [x \in (DOMAIN d) \cup {k} |-> IF x = k THEN v ELSE d[x]]
EmptyDict == [x \in {} |-> None]

\* --------------------------------------------------- the authentication call
\* What one GET of boot.pluto.tv/v4/start can do: raise, or answer with a
\* status and a JSON body that holds a sessionToken or lacks it.
AuthOutcomes ==
    {[raises |-> TRUE, status |-> 0, hasToken |-> FALSE]} \cup
    [raises : {FALSE}, status : {200, 201, 202, 500}, hasToken : BOOLEAN]

\* The JSON body of a successful authentication made at hour t.  issuedAt
\* identifies the authentication call that produced the body.
AuthBody(o, t) ==
    [sessionToken |-> IF o.hasToken THEN "tok" ELSE None, issuedAt |-> t]

\* StreamSession.__init__
NewStreamSession == [response_list |-> EmptyDict, sessionAt |-> EmptyDict]

\* BootCached with the freshness test written <= instead of <.
BootCached_AtMost(s, cc, t) ==
    /\ cc \in DOMAIN s.response_list
    /\ cc \in DOMAIN s.sessionAt
    /\ t - s.sessionAt[cc] <= FRESH_HOURS

\* The cache test of StreamSession.boot.  sessionAt.get(cc, datetime.min):
\* a region without a sessionAt entry has an age of about 2000 years.
BootCached(s, cc, t) ==
    /\ cc \in DOMAIN s.response_list
    /\ cc \in DOMAIN s.sessionAt
    /\ t - s.sessionAt[cc] < FRESH_HOURS

\* Boot storing the body of a failed answer instead of returning before the
\* two cache assignments.
Boot_StoreOnFailure(s, cc, t, o) ==
    IF BootCached(s, cc, t)
    THEN [slot |-> s, resp |-> <<s.response_list[cc]>>, error |-> None, auth |-> 0]
    ELSE IF o.raises
    THEN [slot |-> s, resp |-> <<>>, error |-> "Error Exception type", auth |-> 1]
    ELSE IF 200 <= o.status /\ o.status <= 201
    THEN [slot  |-> [response_list |-> DictSet(s.response_list, cc, AuthBody(o, t)),
                     sessionAt     |-> DictSet(s.sessionAt, cc, t)],
          resp  |-> <<AuthBody(o, t)>>,
          error |-> None,
          auth  |-> 1]
    ELSE [slot  |-> [response_list |-> DictSet(s.response_list, cc, AuthBody(o, t)),
                     sessionAt     |-> DictSet(s.sessionAt, cc, t)],
          resp |-> <<>>, error |-> "HTTP failure", auth |-> 1]

\* StreamSession.boot(country_code, x_forward) on slot state s at hour t, the
\* authentication call (if one is made) ending as o.  Returns the new slot
\* state, the pair (resp, error) and the number of authentication calls.
Boot(s, cc, t, o) ==
    IF BootCached(s, cc, t)
    THEN [slot |-> s, resp |-> <<s.response_list[cc]>>, error |-> None, auth |-> 0]
    ELSE IF o.raises
    THEN [slot |-> s, resp |-> <<>>, error |-> "Error Exception type", auth |-> 1]
    ELSE IF 200 <= o.status /\ o.status <= 201
    THEN [slot  |-> [response_list |-> DictSet(s.response_list, cc, AuthBody(o, t)),
                     sessionAt     |-> DictSet(s.sessionAt, cc, t)],
          resp  |-> <<AuthBody(o, t)>>,
          error |-> None,
          auth  |-> 1]
    ELSE [slot |-> s, resp |-> <<>>, error |-> "HTTP failure", auth |-> 1]

\* ------------------------------------------------------------------ Client
\* _next_slot without the increment of _pool_index.
NextSlot_NoIncrement(idx) == [slot |-> idx % STREAM_POOL_SIZE, index |-> idx]

\* Client._next_slot: the slot index selected and the index after it.
NextSlot(idx) == [slot |-> idx % STREAM_POOL_SIZE, index |-> idx + 1]

\* resp.get('sessionToken')
SessionToken(resp) == resp.sessionToken

\* The threads that call get_stream_token concurrently.
MaxThreads == 2
Threads == 1..MaxThreads
\* threading.Lock() as created: no thread holds it.
Unheld == 0
\* A thread outside get_stream_token.  pc is the line it is about to execute;
\* slot, current_date, resp and error are the locals of get_stream_token and
\* boot (<<>>: unbound).
IdleThread == [pc |-> "idle", cc |-> None, slot |-> <<>>, current_date |-> <<>>,
               resp |-> <<>>, error |-> None]

\* last.resp is <<>> for no response and <<resp>> for one; last.data likewise
\* for the data part of the returned tuple.  last.ret is the shape of what the
\* call returned: a "tuple", a bare "None", or "raise" for an exception.  last.src is what the call read:
\* the channel list the backend sent (channels), the stored catalogs as they
\* were when the call began (channels_all).
\* last.timeline_requests counts the timeline requests the call issued.
\* last.env is what the backend did during the call, one record per update_epg
\* run: the region asked for, the channel list sent and the number of the
\* timeline request that fails (0: none); for channels, the region and how
\* the channel-list and the category request end when they are made.
NoCall == [op |-> "none", cc |-> None, slot |-> <<>>, booted |-> FALSE,
           cached |-> FALSE, auth |-> 0, resp |-> <<>>, token |-> None,
           data |-> <<>>, error |-> None, src |-> <<>>, ret |-> "tuple",
           timeline_requests |-> 0, env |-> <<>>]

Init ==
    /\ now = 0
    /\ pool = [i \in Slots |-> NewStreamSession]
    /\ pool_index = 0
    /\ response_list = EmptyDict
    /\ sessionAt = EmptyDict
    /\ all_channels = <<>>
    /\ epg_data = EmptyDict
    /\ pool_lock = Unheld
    /\ threads = [th \in Threads |-> IdleThread]
    /\ calls = 0
    /\ served = <<>>
    /\ last = NoCall

\* The clock advances by one hour.
Tick ==
    /\ now < MaxTime
    /\ now' = now + 1
    /\ last' = NoCall
    /\ UNCHANGED <<pool, pool_index, response_list, sessionAt, all_channels,
                   epg_data, pool_lock, threads, calls, served>>

\* Client.get_stream_token(country_code)
GetStreamToken(cc, o) ==
    \E sel \in {NextSlot(pool_index)} :
    \E b \in {Boot(pool[sel.slot], cc, now, o)} :
        /\ calls' = calls + 1
        /\ pool_index' = sel.index
        /\ pool' = [pool EXCEPT ![sel.slot] = b.slot]
        /\ served' = Append(served, sel.slot)
        /\ last' = [op |-> "get_stream_token", cc |-> cc, slot |-> <<sel.slot>>,
                    booted |-> TRUE,
                    cached |-> BootCached(pool[sel.slot], cc, now),
                    auth |-> b.auth,
                    resp |-> b.resp,
                    token |-> IF b.error # None THEN None ELSE SessionToken(b.resp[1]),
                    data |-> IF b.error # None THEN <<>> ELSE <<sel.slot>>,
                    error |-> b.error,
                    src |-> <<>>,
                    ret |-> "tuple",
                    timeline_requests |-> 0,
                    env |-> <<>>]
        /\ UNCHANGED <<now, response_list, sessionAt, all_channels, epg_data,
                       pool_lock, threads>>

\* ------------------------------------------- get_stream_token, line by line
\* The steps of one caller of get_stream_token when several threads call it at
\* once.  Each step is one line (or one request) of _next_slot,
\* get_stream_token and boot; the steps of different threads interleave freely.

\* A lock that never blocks.
LockFree_Always(lock) == TRUE

\* `with self._pool_lock` can be entered: no thread holds the lock.
LockFree(lock) == lock = Unheld

\* A with block that leaves the lock with the thread that took it.
Unlocked_Kept(th) == th

\* The holder of the lock after thread th leaves the with block.
Unlocked(th) == Unheld

\* get_stream_token(country_code) is called by thread th.
CallGetStreamToken(th, cc) ==
    /\ threads[th].pc = "idle"
    /\ threads' = [threads EXCEPT ![th] = [IdleThread EXCEPT !.pc = "acquire", !.cc = cc]]
    /\ calls' = calls + 1
    /\ UNCHANGED <<now, pool, pool_index, response_list, sessionAt, all_channels,
                   epg_data, pool_lock, served, last>>

\* with self._pool_lock: the thread waits until it can take the lock.
AcquireLock(th) ==
    /\ threads[th].pc = "acquire"
    /\ LockFree(pool_lock)
    /\ pool_lock' = th
    /\ threads' = [threads EXCEPT ![th].pc = "select"]
    /\ UNCHANGED <<now, pool, pool_index, response_list, sessionAt, all_channels,
                   epg_data, calls, served, last>>

\* slot = self._pool[self._pool_index % STREAM_POOL_SIZE]
SelectSlot(th) ==
    /\ threads[th].pc = "select"
    /\ threads' = [threads EXCEPT ![th].pc = "increment",
                                  ![th].slot = <<NextSlot(pool_index).slot>>]
    /\ served' = Append(served, NextSlot(pool_index).slot)
    /\ UNCHANGED <<now, pool, pool_index, response_list, sessionAt, all_channels,
                   epg_data, pool_lock, calls, last>>

\* self._pool_index += 1
IncrementIndex(th) ==
    /\ threads[th].pc = "increment"
    /\ pool_index' = NextSlot(pool_index).index
    /\ threads' = [threads EXCEPT ![th].pc = "release"]
    /\ UNCHANGED <<now, pool, response_list, sessionAt, all_channels, epg_data,
                   pool_lock, calls, served, last>>

\* The end of the with block.
ReleaseLock(th) ==
    /\ threads[th].pc = "release"
    /\ pool_lock' = Unlocked(th)
    /\ threads' = [threads EXCEPT ![th].pc = "boot"]
    /\ UNCHANGED <<now, pool, pool_index, response_list, sessionAt, all_channels,
                   epg_data, calls, served, last>>

\* boot: the clock is read and the cache tested; a fresh cached response is
\* returned, otherwise the request is sent.
BootBegin(th) ==
    LET t == threads[th] IN
    /\ t.pc = "boot"
    /\ threads' = [threads EXCEPT ![th] =
          IF BootCached(pool[t.slot[1]], t.cc, now)
          THEN [t EXCEPT !.pc = "return", !.current_date = <<now>>,
                         !.resp = <<pool[t.slot[1]].response_list[t.cc]>>]
          ELSE [t EXCEPT !.pc = "request", !.current_date = <<now>>]]
    /\ UNCHANGED <<now, pool, pool_index, response_list, sessionAt, all_channels,
                   epg_data, pool_lock, calls, served, last>>

\* boot: self.session.get returns or raises, as o says; a failure returns
\* (None, error) from boot.
AuthReturns(th, o) ==
    LET t == threads[th] IN
    /\ t.pc = "request"
    /\ threads' = [threads EXCEPT ![th] =
          IF o.raises
          THEN [t EXCEPT !.pc = "return", !.error = "Error Exception type"]
          ELSE IF 200 <= o.status /\ o.status <= 201
          THEN [t EXCEPT !.pc = "store_response", !.resp = <<AuthBody(o, now)>>]
          ELSE [t EXCEPT !.pc = "return", !.error = "HTTP failure"]]
    /\ UNCHANGED <<now, pool, pool_index, response_list, sessionAt, all_channels,
                   epg_data, pool_lock, calls, served, last>>

\* boot: self.response_list[country_code] = resp
StoreResponse(th) ==
    LET t == threads[th] IN
    /\ t.pc = "store_response"
    /\ pool' = [pool EXCEPT ![t.slot[1]].response_list =
                   DictSet(pool[t.slot[1]].response_list, t.cc, t.resp[1])]
    /\ threads' = [threads EXCEPT ![th].pc = "store_sessionAt"]
    /\ UNCHANGED <<now, pool_index, response_list, sessionAt, all_channels,
                   epg_data, pool_lock, calls, served, last>>

\* boot: self.sessionAt[country_code] = current_date
StoreSessionAt(th) ==
    LET t == threads[th] IN
    /\ t.pc = "store_sessionAt"
    /\ pool' = [pool EXCEPT ![t.slot[1]].sessionAt =
                   DictSet(pool[t.slot[1]].sessionAt, t.cc, t.current_date[1])]
    /\ threads' = [threads EXCEPT ![th].pc = "return"]
    /\ UNCHANGED <<now, pool_index, response_list, sessionAt, all_channels,
                   epg_data, pool_lock, calls, served, last>>

\* get_stream_token returns (token, slot, None) or (None, None, error).
ReturnStreamToken(th) ==
    /\ threads[th].pc = "return"
    /\ threads' = [threads EXCEPT ![th] = IdleThread]
    /\ UNCHANGED <<now, pool, pool_index, response_list, sessionAt, all_channels,
                   epg_data, pool_lock, calls, served, last>>

\* The cache test of Client.resp_data.  sessionAt.get(cc, datetime.now()) is a
\* naive datetime: subtracting it from the aware current_date raises TypeError.
RespDataRaises(rl, sa, cc) == cc \in DOMAIN rl /\ cc \notin DOMAIN sa
RespDataCached(rl, sa, cc, t) ==
    /\ cc \in DOMAIN rl
    /\ cc \in DOMAIN sa
    /\ t - sa[cc] < FRESH_HOURS

\* Client.resp_data(country_code) on Client cache (rl, sa) and slot 0 state s0
\* at hour t.  Returns the new Client cache, the new state of slot 0, the pair
\* (resp, error) and the number of authentication calls.
RespDataOp(rl, sa, s0, cc, t, o) ==
    IF RespDataRaises(rl, sa, cc)
    THEN [response_list |-> rl, sessionAt |-> sa, slot |-> s0, resp |-> <<>>,
          error |-> "TypeError", auth |-> 0, booted |-> FALSE]
    ELSE IF RespDataCached(rl, sa, cc, t)
    THEN [response_list |-> rl, sessionAt |-> sa, slot |-> s0, resp |-> <<rl[cc]>>,
          error |-> None, auth |-> 0, booted |-> FALSE]
    ELSE LET b == Boot(s0, cc, t, o)
         IN  IF b.error # None
             THEN [response_list |-> rl, sessionAt |-> sa, slot |-> b.slot,
                   resp |-> <<>>, error |-> b.error, auth |-> b.auth, booted |-> TRUE]
             ELSE [response_list |-> DictSet(rl, cc, b.resp[1]),
                   sessionAt |-> DictSet(sa, cc, t),
                   slot |-> b.slot, resp |-> b.resp, error |-> None,
                   auth |-> b.auth, booted |-> TRUE]

\* The index of the pool slot that resp_data boots.
MetadataSlot == 0

\* Client.resp_data(country_code)
RespData(cc, o) ==
    \E r \in {RespDataOp(response_list, sessionAt, pool[MetadataSlot], cc, now, o)} :
        /\ calls' = calls + 1
        /\ response_list' = r.response_list
        /\ sessionAt' = r.sessionAt
        /\ pool' = [pool EXCEPT ![MetadataSlot] = r.slot]
        /\ last' = [op |-> "resp_data", cc |-> cc,
                    slot |-> IF r.booted THEN <<MetadataSlot>> ELSE <<>>,
                    booted |-> r.booted,
                    cached |-> r.booted /\ BootCached(pool[MetadataSlot], cc, now),
                    auth |-> r.auth,
                    resp |-> r.resp,
                    token |-> IF r.error # None THEN None ELSE SessionToken(r.resp[1]),
                    data |-> r.resp,
                    error |-> r.error,
                    src |-> <<>>,
                    ret |-> IF r.error = "TypeError" THEN "raise" ELSE "tuple",
                    timeline_requests |-> 0,
                    env |-> <<>>]
        /\ UNCHANGED <<now, pool_index, served, all_channels, epg_data,
                       pool_lock, threads>>

\* ------------------------------------------------- insertion-ordered dicts
\* A dict whose iteration order matters is a sequence of [key, val] in
\* insertion order.
OdKeys(od) == {od[i].key : i \in 1..Len(od)}
OdIndex(od, k) == CHOOSE i \in 1..Len(od) : od[i].key = k
\* od[k] = v: a key already present keeps its position.
OdSet(od, k, v) ==
    IF k \in OdKeys(od)
    THEN [od EXCEPT ![OdIndex(od, k)].val = v]
    ELSE Append(od, [key |-> k, val |-> v])

\* ----------------------------------------------------------------- catalog
\* What one GET of a service-channels endpoint can do: raise, or answer with a
\* status.  Only status 200 is accepted.
HttpOutcomes ==
    {[raises |-> TRUE, status |-> 0]} \cup [raises : {FALSE}, status : {200, 201, 500}]
HttpFailed(h) == h.raises \/ h.status # 200
HttpError(h) == IF h.raises THEN "Error Exception type" ELSE "HTTP failure"

\* The collision loop written as an if: the number is bumped at most once.
FirstFree_Once(number, existing_numbers) ==
    IF number \in existing_numbers THEN number + 1 ELSE number

\* while number in existing_numbers: number += 1
RECURSIVE FirstFree(_, _)
FirstFree(number, existing_numbers) ==
    IF number \in existing_numbers
    THEN FirstFree(number + 1, existing_numbers)
    ELSE number

\* The loop of channels over channel_list: the stations list in source order.
\* A record keeps the fields the numbering and the merge read or write (id,
\* number, country_code); name, slug, tmsid, summary, group and logo are
\* copied from the source and never read again by the code modelled here.
RECURSIVE Stations(_, _)
Stations(channel_list, cc) ==
    IF channel_list = <<>>
    THEN <<>>
    ELSE LET n == Len(channel_list)
             stations == Stations(SubSeq(channel_list, 1, n - 1), cc)
             elem == channel_list[n]
             existing_numbers == {stations[i].number : i \in 1..Len(stations)}
         IN  Append(stations, [id |-> elem.id,
                               number |-> FirstFree(elem.number, existing_numbers),
                               country_code |-> cc])

\* sorted(stations, key=lambda x: x["number"]): a stable sort.
SortedInsert(sorted, e) ==
    LET k == Cardinality({i \in 1..Len(sorted) : sorted[i].number <= e.number})
    IN  SubSeq(sorted, 1, k) \o <<e>> \o SubSeq(sorted, k + 1, Len(sorted))
RECURSIVE SortedByNumber(_)
SortedByNumber(stations) ==
    IF stations = <<>>
    THEN <<>>
    ELSE SortedInsert(SortedByNumber(SubSeq(stations, 1, Len(stations) - 1)),
                      stations[Len(stations)])

\* ChannelsOp storing the catalog as soon as the channel list is read, before
\* the category request.
ChannelsOp_StoreBeforeCategories(rl, sa, s0, ac, cc, t, o, chan, cat) ==
    LET r == RespDataOp(rl, sa, s0, cc, t, o)
        base == [response_list |-> r.response_list, sessionAt |-> r.sessionAt,
                 slot |-> r.slot, resp |-> r.resp, auth |-> r.auth,
                 booted |-> r.booted, all_channels |-> ac, data |-> <<>>,
                 error |-> None, requests |-> 0]
    IN  IF r.error # None
        THEN [base EXCEPT !.error = r.error]
        ELSE IF SessionToken(r.resp[1]) = None
        THEN [base EXCEPT !.error = r.error]
        ELSE IF HttpFailed(chan)
        THEN [base EXCEPT !.requests = 1, !.error = HttpError(chan)]
        ELSE LET sorted_data == SortedByNumber(Stations(chan.data, cc))
             IN  IF HttpFailed(cat)
                 THEN [base EXCEPT !.requests = 2, !.error = HttpError(cat),
                                   !.all_channels = OdSet(ac, cc, sorted_data)]
                 ELSE [base EXCEPT !.requests = 2,
                                   !.all_channels = OdSet(ac, cc, sorted_data),
                                   !.data = <<sorted_data>>]

\* Client.channels(country_code) for a region other than 'all': resp_data, the
\* channel-list request (ending as chan, with body chan.data), the category
\* request (ending as cat), the numbering loop, the sort and the store.
ChannelsOp(rl, sa, s0, ac, cc, t, o, chan, cat) ==
    LET r == RespDataOp(rl, sa, s0, cc, t, o)
        base == [response_list |-> r.response_list, sessionAt |-> r.sessionAt,
                 slot |-> r.slot, resp |-> r.resp, auth |-> r.auth,
                 booted |-> r.booted, all_channels |-> ac, data |-> <<>>,
                 error |-> None, requests |-> 0]
    IN  IF r.error # None
        THEN [base EXCEPT !.error = r.error]
        ELSE IF SessionToken(r.resp[1]) = None
        THEN [base EXCEPT !.error = r.error]
        ELSE IF HttpFailed(chan)
        THEN [base EXCEPT !.requests = 1, !.error = HttpError(chan)]
        ELSE IF HttpFailed(cat)
        THEN [base EXCEPT !.requests = 2, !.error = HttpError(cat)]
        ELSE LET sorted_data == SortedByNumber(Stations(chan.data, cc))
             IN  [base EXCEPT !.requests = 2,
                              !.all_channels = OdSet(ac, cc, sorted_data),
                              !.data = <<sorted_data>>]

\* Client.channels(country_code)
Channels(cc, o, chan, cat) ==
    \E r \in {ChannelsOp(response_list, sessionAt, pool[MetadataSlot], all_channels,
                        cc, now, o, chan, cat)} :
        /\ calls' = calls + 1
        /\ response_list' = r.response_list
        /\ sessionAt' = r.sessionAt
        /\ pool' = [pool EXCEPT ![MetadataSlot] = r.slot]
        /\ all_channels' = r.all_channels
        /\ last' = [op |-> "channels", cc |-> cc,
                    slot |-> IF r.booted THEN <<MetadataSlot>> ELSE <<>>,
                    booted |-> r.booted,
                    cached |-> r.booted /\ BootCached(pool[MetadataSlot], cc, now),
                    auth |-> r.auth,
                    resp |-> r.resp,
                    token |-> IF r.resp = <<>> THEN None ELSE SessionToken(r.resp[1]),
                    data |-> r.data,
                    error |-> r.error,
                    src |-> IF r.requests > 0 /\ ~HttpFailed(chan) THEN chan.data ELSE <<>>,
                    ret |-> IF r.error = "TypeError" THEN "raise" ELSE "tuple",
                    timeline_requests |-> 0,
                    env |-> <<[region |-> cc,
                               chan |-> [raises |-> chan.raises, status |-> chan.status],
                               cat |-> cat]>>]
        /\ UNCHANGED <<now, pool_index, served, epg_data, pool_lock, threads>>

\* ------------------------------------------------------------------- merge
\* str.lower() on the region codes the model uses.
LowerTable ==
    ("CA" :> "ca") @@ ("UK" :> "uk") @@ ("FR" :> "fr") @@ ("DE" :> "de") @@
    ("LOCAL" :> "local")
Lower(str) == IF str \in DOMAIN LowerTable THEN LowerTable[str] ELSE str

\* The offset added without the test that the number is below it.
Offsetted_Always(number, country_code) ==
    LET lc == Lower(country_code)
    IN  CASE lc = "ca" -> number + 6000
          [] lc = "uk" -> number + 7000
          [] lc = "fr" -> number + 8000
          [] lc = "de" -> number + 9000
          [] OTHER -> number

\* The match statement of channels_all: the number after the region's offset.
Offsetted(number, country_code) ==
    LET lc == Lower(country_code)
    IN  CASE lc = "ca" -> IF number < 6000 THEN number + 6000 ELSE number
          [] lc = "uk" -> IF number < 7000 THEN number + 7000 ELSE number
          [] lc = "fr" -> IF number < 8000 THEN number + 8000 ELSE number
          [] lc = "de" -> IF number < 9000 THEN number + 9000 ELSE number
          [] OTHER -> number

\* all_channel_list: the records of every stored catalog, in dict order.  The
\* list holds the stored dict objects themselves, so an entry is the place
\* <<k, i>> of the record: catalog k of all_channels, position i.
RECURSIVE AllChannelList(_, _)
AllChannelList(ac, k) ==
    IF k > Len(ac)
    THEN <<>>
    ELSE [i \in 1..Len(ac[k].val) |-> <<k, i>>] \o AllChannelList(ac, k + 1)

\* The record a place refers to.
Elem(ac, ref) == ac[ref[1]].val[ref[2]]

\* filtered_list keeping the last occurrence of an id instead of the first.
FilteredList_KeepLast(ac, all_channel_list, j, seen) ==
    SelectSeq(all_channel_list,
              LAMBDA ref : \A i \in 1..Len(all_channel_list) :
                  Elem(ac, all_channel_list[i]).id = Elem(ac, ref).id =>
                      \/ all_channel_list[i][1] < ref[1]
                      \/ all_channel_list[i][1] = ref[1] /\ all_channel_list[i][2] <= ref[2])

\* filtered_list: the entries whose id was not seen before.
RECURSIVE FilteredList(_, _, _, _)
FilteredList(ac, all_channel_list, j, seen) ==
    IF j > Len(all_channel_list)
    THEN <<>>
    ELSE LET id == Elem(ac, all_channel_list[j]).id
         IN  IF id \notin seen
             THEN <<all_channel_list[j]>> \o
                  FilteredList(ac, all_channel_list, j + 1, seen \cup {id})
             ELSE FilteredList(ac, all_channel_list, j + 1, seen)

\* The renumbering loop with a "used numbers" set kept per region instead of
\* one set for the whole merged result.
RECURSIVE Renumbered_PerRegion(_, _, _, _)
Renumbered_PerRegion(ac, filtered_list, j, seen) ==
    IF j > Len(filtered_list)
    THEN ac
    ELSE LET ref == filtered_list[j]
             elem == Elem(ac, ref)
             here == IF j > 1 /\ filtered_list[j - 1][1] = ref[1] THEN seen ELSE {}
             number == FirstFree(Offsetted(elem.number, elem.country_code), here)
             ac2 == IF number # elem.number
                    THEN [ac EXCEPT ![ref[1]].val[ref[2]].number = number]
                    ELSE ac
         IN  Renumbered_PerRegion(ac2, filtered_list, j + 1, here \cup {number})

\* The renumbering loop of channels_all from entry j on: the stored catalogs
\* after it.  elem['number'] = number writes the stored record.
RECURSIVE Renumbered(_, _, _, _)
Renumbered(ac, filtered_list, j, seen) ==
    IF j > Len(filtered_list)
    THEN ac
    ELSE LET ref == filtered_list[j]
             elem == Elem(ac, ref)
             number == FirstFree(Offsetted(elem.number, elem.country_code), seen)
             ac2 == IF number # elem.number
                    THEN [ac EXCEPT ![ref[1]].val[ref[2]].number = number]
                    ELSE ac
         IN  Renumbered(ac2, filtered_list, j + 1, seen \cup {number})

\* Client.channels_all(): the stored catalogs after the call and the list it
\* returns.
ChannelsAllOp(ac) ==
    LET filtered_list == FilteredList(ac, AllChannelList(ac, 1), 1, {})
        ac2 == Renumbered(ac, filtered_list, 1, {})
    IN  [all_channels |-> ac2,
         data |-> [j \in 1..Len(filtered_list) |-> Elem(ac2, filtered_list[j])]]

\* Client.channels_all()
ChannelsAll ==
    \E r \in {ChannelsAllOp(all_channels)} :
        /\ calls' = calls + 1
        /\ all_channels' = r.all_channels
        /\ last' = [NoCall EXCEPT !.op = "channels_all", !.data = <<r.data>>,
                                  !.src = all_channels]
        /\ UNCHANGED <<now, pool, pool_index, response_list, sessionAt, served,
                       epg_data, pool_lock, threads>>

\* --------------------------------------------------------------------- EPG
\* group_size: channel ids per timeline request.  The source uses 100; the
\* model batches by a smaller size so that a catalog spans several batches.
GROUP_SIZE == 2
\* range_count: the number of windows update_epg fetches.
RANGE_COUNT == 3

\* Grouped keeping only the slices that are full.
RECURSIVE Grouped_FullOnly(_, _)
Grouped_FullOnly(id_values, group_size) ==
    IF Len(id_values) < group_size
    THEN <<>>
    ELSE <<SubSeq(id_values, 1, group_size)>> \o
         Grouped_FullOnly(SubSeq(id_values, group_size + 1, Len(id_values)), group_size)

\* grouped_id_values: consecutive slices of group_size ids.
RECURSIVE Grouped(_, _)
Grouped(id_values, group_size) ==
    IF id_values = <<>>
    THEN <<>>
    ELSE IF Len(id_values) <= group_size
    THEN <<id_values>>
    ELSE <<SubSeq(id_values, 1, group_size)>> \o
         Grouped(SubSeq(id_values, group_size + 1, Len(id_values)), group_size)

\* The timeline requests of one update_epg call: request number tl.fail_at (0:
\* none) raises or answers with tl.status; every other request answers 200 and
\* reports a window end tl.minutes minutes after the requested start.
TimelineOutcome(tl, n) ==
    IF n = tl.fail_at THEN [raises |-> tl.raises, status |-> tl.status] ELSE
    [raises |-> FALSE, status |-> 200]

\* response.json() of a timeline request: one entry per requested channel and
\* the window end the server reports, in minutes.  start and channelIds echo
\* the request parameters.
Page(start_time, group, tl) ==
    [data |-> [k \in 1..Len(group) |-> [channelId |-> group[k]]],
     endDateTime |-> start_time * 60 + tl.minutes,
     start |-> start_time,
     channelIds |-> group]

\* TopOfHour rounding to the next hour instead of cutting the minutes off.
TopOfHour_RoundUp(minutes) == (minutes + 59) \div 60

\* strftime("%Y-%m-%dT%H:00:00.000Z") of a time in minutes: the hour.
TopOfHour(minutes) == minutes \div 60

\* FetchGroups without the try and the status test: the answer to a failed
\* request is appended like any other.
RECURSIVE FetchGroups_NoStatusCheck(_, _, _, _, _, _)
FetchGroups_NoStatusCheck(groups, g, start_time, country_data, nreq, tl) ==
    IF g > Len(groups)
    THEN [error |-> None, country_data |-> country_data, nreq |-> nreq]
    ELSE FetchGroups_NoStatusCheck(groups, g + 1, start_time,
                     Append(country_data, Page(start_time, groups[g], tl)),
                     nreq + 1, tl)

\* The inner loop of update_epg over the groups of one window, from group g.
RECURSIVE FetchGroups(_, _, _, _, _, _)
FetchGroups(groups, g, start_time, country_data, nreq, tl) ==
    IF g > Len(groups)
    THEN [error |-> None, country_data |-> country_data, nreq |-> nreq]
    ELSE IF HttpFailed(TimelineOutcome(tl, nreq + 1))
    THEN [error |-> HttpError(TimelineOutcome(tl, nreq + 1)),
          country_data |-> country_data, nreq |-> nreq + 1]
    ELSE FetchGroups(groups, g + 1, start_time,
                     Append(country_data, Page(start_time, groups[g], tl)),
                     nreq + 1, tl)

\* The outer loop of update_epg over the windows, from window i.  With no
\* group the local name response is unbound where the window's end is read.
RECURSIVE FetchWindows(_, _, _, _, _, _, _, _)
FetchWindows(i, range_count, groups, start_time, end_time, country_data, nreq, tl) ==
    IF i >= range_count
    THEN [error |-> None, raised |-> FALSE, country_data |-> country_data, nreq |-> nreq]
    ELSE CHOOSE result \in
           {IF w.error # None
            THEN [error |-> w.error, raised |-> FALSE,
                  country_data |-> w.country_data, nreq |-> w.nreq]
            ELSE IF groups = <<>>
            THEN [error |-> "UnboundLocalError", raised |-> TRUE,
                  country_data |-> w.country_data, nreq |-> w.nreq]
            ELSE FetchWindows(i + 1, range_count, groups, start,
                              TopOfHour(w.country_data[Len(w.country_data)].endDateTime),
                              w.country_data, w.nreq, tl) :
              start \in {IF end_time # start_time THEN end_time ELSE start_time},
              w \in {FetchGroups(groups, 1,
                                 IF end_time # start_time THEN end_time ELSE start_time,
                                 country_data, nreq, tl)}} : TRUE

\* Client.update_epg(country_code, range_count), called at minute past hour
\* t: resp_data, channels (which calls resp_data again), the window loop and
\* the store.  ret is the shape of the return value: the tuple (None, error),
\* a bare None, or an exception.
UpdateEpgOp(rl, sa, s0, ac, ed, cc, range_count, t, minute, o, chan, cat, tl) ==
    CHOOSE result \in
      {LET early == [response_list |-> r.response_list, sessionAt |-> r.sessionAt,
                     slot |-> r.slot, resp |-> r.resp, auth |-> r.auth,
                     booted |-> r.booted, all_channels |-> ac, epg_data |-> ed,
                     error |-> r.error, ret |-> "tuple", timeline_requests |-> 0,
                     station_list |-> <<>>]
       IN  IF r.error # None
           THEN early
           ELSE IF SessionToken(r.resp[1]) = None
           THEN early
           ELSE CHOOSE fetched_result \in
             {LET fetched == [early EXCEPT !.response_list = c.response_list,
                                           !.sessionAt = c.sessionAt,
                                           !.slot = c.slot,
                                           !.auth = r.auth + c.auth,
                                           !.all_channels = c.all_channels]
              IN  IF c.error # None
                  THEN [fetched EXCEPT !.error = c.error]
                  ELSE IF c.data = <<>>
                  THEN [fetched EXCEPT !.error = "TypeError", !.ret = "raise"]
                  ELSE LET station_list == c.data[1]
                           id_values == [i \in 1..Len(station_list) |-> station_list[i].id]
                           start_time == TopOfHour(t * 60 + minute)
                       IN  CHOOSE stored \in
                             {IF w.error # None
                              THEN [fetched EXCEPT
                                      !.error = w.error,
                                      !.station_list = station_list,
                                      !.ret = IF w.raised THEN "raise" ELSE "tuple",
                                      !.timeline_requests = w.nreq]
                              ELSE [fetched EXCEPT
                                      !.epg_data = DictSet(ed, cc, w.country_data),
                                      !.station_list = station_list,
                                      !.ret = "None",
                                      !.timeline_requests = w.nreq] :
                                w \in {FetchWindows(0, range_count,
                                           Grouped(id_values, GROUP_SIZE),
                                           start_time, start_time, <<>>, 0, tl)}} : TRUE :
                c \in {ChannelsOp(r.response_list, r.sessionAt, r.slot, ac, cc, t,
                                  o, chan, cat)}} : TRUE :
         r \in {RespDataOp(rl, sa, s0, cc, t, o)}} : TRUE

\* Client.update_epg(country_code, range_count)
UpdateEpg(cc, range_count, minute, o, chan, cat, tl) ==
    \E r \in {UpdateEpgOp(response_list, sessionAt, pool[MetadataSlot], all_channels,
                          epg_data, cc, range_count, now, minute, o, chan, cat, tl)} :
        /\ calls' = calls + 1
        /\ response_list' = r.response_list
        /\ sessionAt' = r.sessionAt
        /\ pool' = [pool EXCEPT ![MetadataSlot] = r.slot]
        /\ all_channels' = r.all_channels
        /\ epg_data' = r.epg_data
        /\ last' = [op |-> "update_epg", cc |-> cc,
                    slot |-> IF r.booted THEN <<MetadataSlot>> ELSE <<>>,
                    booted |-> r.booted,
                    cached |-> r.booted /\ BootCached(pool[MetadataSlot], cc, now),
                    auth |-> r.auth,
                    resp |-> r.resp,
                    token |-> IF r.resp = <<>> THEN None ELSE SessionToken(r.resp[1]),
                    data |-> <<>>,
                    error |-> r.error,
                    src |-> r.station_list,
                    ret |-> r.ret,
                    timeline_requests |-> r.timeline_requests,
                    env |-> <<[region |-> cc, catalog |-> chan.data,
                               fail_at |-> tl.fail_at]>>]
        /\ UNCHANGED <<now, pool_index, served, pool_lock, threads>>

\* list.remove(x): the first element equal to x is taken out.
RemoveFirst(list, x) ==
    LET i == CHOOSE i \in 1..Len(list) :
                 list[i] = x /\ \A j \in 1..(i - 1) : list[j] # x
    IN  SubSeq(list, 1, i - 1) \o SubSeq(list, i + 1, Len(list))

\* DedupeEntries with the counter compared by <= instead of <.
RECURSIVE DedupeEntries_AtMost(_, _, _, _, _)
DedupeEntries_AtMost(copy, i, data_list, channelIds_seen, range_count) ==
    IF i > Len(copy)
    THEN [data_list |-> data_list, channelIds_seen |-> channelIds_seen]
    ELSE LET channelId == copy[i].channelId
         IN  IF channelId \in DOMAIN channelIds_seen
             THEN IF channelIds_seen[channelId] <= range_count
                  THEN CHOOSE r \in
                           {DedupeEntries_AtMost(copy, i + 1, data_list, seen, range_count) :
                               seen \in {DictSet(channelIds_seen, channelId,
                                                 channelIds_seen[channelId] + 1)}} : TRUE
                  ELSE CHOOSE r \in
                           {DedupeEntries_AtMost(copy, i + 1, rest, channelIds_seen, range_count) :
                               rest \in {RemoveFirst(data_list, copy[i])}} : TRUE
             ELSE CHOOSE r \in
                      {DedupeEntries_AtMost(copy, i + 1, data_list, seen, range_count) :
                          seen \in {DictSet(channelIds_seen, channelId, 1)}} : TRUE

\* The loop of get_all_epg_data over the entries of one page: copy is
\* data_list[:], the entries as they were when the loop began; data_list is
\* the list the loop removes from.
RECURSIVE DedupeEntries(_, _, _, _, _)
DedupeEntries(copy, i, data_list, channelIds_seen, range_count) ==
    IF i > Len(copy)
    THEN [data_list |-> data_list, channelIds_seen |-> channelIds_seen]
    ELSE LET channelId == copy[i].channelId
         IN  IF channelId \in DOMAIN channelIds_seen
             THEN IF channelIds_seen[channelId] < range_count
                  THEN CHOOSE r \in
                           {DedupeEntries(copy, i + 1, data_list, seen, range_count) :
                               seen \in {DictSet(channelIds_seen, channelId,
                                                 channelIds_seen[channelId] + 1)}} : TRUE
                  ELSE CHOOSE r \in
                           {DedupeEntries(copy, i + 1, rest, channelIds_seen, range_count) :
                               rest \in {RemoveFirst(data_list, copy[i])}} : TRUE
             ELSE CHOOSE r \in
                      {DedupeEntries(copy, i + 1, data_list, seen, range_count) :
                          seen \in {DictSet(channelIds_seen, channelId, 1)}} : TRUE

\* The loop of get_all_epg_data over the pages of one region, from page k.
\* data_list is the list object inside the stored page, so the removals show
\* in epg_data as well; all_epg_data gets one {'data': data_list} per page.
RECURSIVE DedupePages(_, _, _, _, _)
DedupePages(epg_lists, k, channelIds_seen, all_epg_data, range_count) ==
    IF k > Len(epg_lists)
    THEN [epg_lists |-> epg_lists, channelIds_seen |-> channelIds_seen,
          all_epg_data |-> all_epg_data]
    ELSE CHOOSE r \in
             {DedupePages([epg_lists EXCEPT ![k].data = d.data_list], k + 1,
                          d.channelIds_seen,
                          Append(all_epg_data, [data |-> d.data_list]), range_count) :
                 d \in {DedupeEntries(epg_lists[k].data, 1, epg_lists[k].data,
                                      channelIds_seen, range_count)}} : TRUE

\* The loop of get_all_epg_data over the regions, from region n.  st is the
\* Client state, outs[n] the outcome of the requests made for region n.
\* fetched collects the pages as update_epg stored them, in processing order.
\* ret is the shape of what is returned: the "list" of pages, the "tuple"
\* update_epg returned, or "raise" for an exception.
RECURSIVE GetAllEpgDataFrom(_, _, _, _, _, _, _, _, _, _)
GetAllEpgDataFrom(st, country_code, n, t, minute, outs, channelIds_seen, all_epg_data, fetched, nreq) ==
    IF n > Len(country_code)
    THEN [st |-> st, ret |-> "list", data |-> <<all_epg_data>>, error |-> None,
          fetched |-> fetched, timeline_requests |-> nreq]
    ELSE CHOOSE r \in
           {LET country == country_code[n]
                st2 == [response_list |-> u.response_list, sessionAt |-> u.sessionAt,
                        slot |-> u.slot, all_channels |-> u.all_channels,
                        epg_data |-> u.epg_data]
            IN  IF u.ret # "None"
                THEN [st |-> st2, ret |-> u.ret, data |-> <<>>, error |-> u.error,
                      fetched |-> fetched,
                      timeline_requests |-> nreq + u.timeline_requests]
                ELSE CHOOSE rr \in
                       {GetAllEpgDataFrom(
                            [st2 EXCEPT !.epg_data =
                                DictSet(u.epg_data, country, d.epg_lists)],
                            country_code, n + 1, t, minute, outs,
                            d.channelIds_seen, d.all_epg_data,
                            fetched \o u.epg_data[country],
                            nreq + u.timeline_requests) :
                          d \in {DedupePages(u.epg_data[country], 1, channelIds_seen,
                                             all_epg_data, RANGE_COUNT)}} : TRUE :
              u \in {UpdateEpgOp(st.response_list, st.sessionAt, st.slot,
                                 st.all_channels, st.epg_data, country_code[n],
                                 RANGE_COUNT, t, minute, outs[n].o, outs[n].chan,
                                 outs[n].cat, outs[n].tl)}} : TRUE

\* Client.get_all_epg_data(country_code) for a list of regions.
GetAllEpgData(country_code, minute, outs) ==
    \E r \in {GetAllEpgDataFrom(
                 [response_list |-> response_list, sessionAt |-> sessionAt,
                  slot |-> pool[MetadataSlot], all_channels |-> all_channels,
                  epg_data |-> epg_data],
                 country_code, 1, now, minute, outs, EmptyDict, <<>>, <<>>, 0)} :
        /\ calls' = calls + 1
        /\ response_list' = r.st.response_list
        /\ sessionAt' = r.st.sessionAt
        /\ pool' = [pool EXCEPT ![MetadataSlot] = r.st.slot]
        /\ all_channels' = r.st.all_channels
        /\ epg_data' = r.st.epg_data
        /\ last' = [NoCall EXCEPT !.op = "get_all_epg_data", !.data = r.data,
                                  !.error = r.error, !.src = r.fetched,
                                  !.ret = r.ret,
                                  !.timeline_requests = r.timeline_requests,
                                  !.env = [n \in 1..Len(outs) |->
                                              [region |-> country_code[n],
                                               catalog |-> outs[n].chan.data,
                                               fail_at |-> outs[n].tl.fail_at]]]
        /\ UNCHANGED <<now, pool_index, served, pool_lock, threads>>

\* Client.create_xml_file(country_code) for a list of regions: channels_all
\* for the station list, then get_all_epg_data, then read_epg_data on every
\* element of what it returned, then the reset of epg_data.  The pages of this
\* model carry channel ids only, so last.src, the pages handed to
\* read_epg_data, stands for the programmes of the guide; last.data is the
\* station list the channel section is written from.  When get_all_epg_data
\* returns update_epg's tuple, its first element None is handed to
\* read_epg_data, which raises on resp["data"]; an exception leaves epg_data
\* as it is.
CreateXmlFile(country_code, minute, outs) ==
    \E m \in {ChannelsAllOp(all_channels)} :
    \E r \in {GetAllEpgDataFrom(
                 [response_list |-> response_list, sessionAt |-> sessionAt,
                  slot |-> pool[MetadataSlot], all_channels |-> m.all_channels,
                  epg_data |-> epg_data],
                 country_code, 1, now, minute, outs, EmptyDict, <<>>, <<>>, 0)} :
        /\ calls' = calls + 1
        /\ response_list' = r.st.response_list
        /\ sessionAt' = r.st.sessionAt
        /\ pool' = [pool EXCEPT ![MetadataSlot] = r.st.slot]
        /\ all_channels' = r.st.all_channels
        /\ epg_data' = IF r.ret = "list" THEN EmptyDict ELSE r.st.epg_data
        /\ last' = [NoCall EXCEPT !.op = "create_xml_file",
                                  !.data = <<m.data>>,
                                  !.error = IF r.ret = "list" THEN None
                                            ELSE IF r.ret = "tuple" THEN "TypeError"
                                            ELSE r.error,
                                  !.src = IF r.ret = "list" THEN r.data[1] ELSE <<>>,
                                  !.ret = IF r.ret = "list" THEN "None" ELSE "raise",
                                  !.timeline_requests = r.timeline_requests,
                                  !.env = [n \in 1..Len(outs) |->
                                              [region |-> country_code[n],
                                               catalog |-> outs[n].chan.data,
                                               fail_at |-> outs[n].tl.fail_at]]]
        /\ UNCHANGED <<now, pool_index, served, pool_lock, threads>>

\* ------------------------------------------------------------ guide model
\* seriesGenres of read_epg_data: the categories in dict order, each key a
\* 1-tuple holding the category name, each value the list of its subgenres.
SeriesGenres == <<
    [key |-> <<"Animated">>, values |-> <<"Family Animation", "Cartoons">>],
    [key |-> <<"Educational">>, values |-> <<"Education & Guidance",
        "Instructional & Educational">>],
    [key |-> <<"News">>, values |-> <<"News and Information", "General News",
        "News + Opinion", "General News">>],
    [key |-> <<"History">>, values |-> <<"History & Social Studies">>],
    [key |-> <<"Politics">>, values |-> <<"Politics">>],
    [key |-> <<"Action">>, values |-> <<"Action & Adventure", "Action Classics",
        "Martial Arts", "Crime Action", "Family Adventures",
        "Action Sci-Fi & Fantasy", "Action Thrillers", "African-American Action">>],
    [key |-> <<"Adventure">>, values |-> <<"Action & Adventure", "Adventures",
        "Sci-Fi Adventure">>],
    [key |-> <<"Reality">>, values |-> <<"Reality", "Reality Drama",
        "Courtroom Reality", "Occupational Reality", "Celebrity Reality">>],
    [key |-> <<"Documentary">>, values |-> <<"Documentaries",
        "Social & Cultural Documentaries", "Science and Nature Documentaries",
        "Miscellaneous Documentaries", "Crime Documentaries",
        "Travel & Adventure Documentaries", "Sports Documentaries",
        "Military Documentaries", "Political Documentaries", "Foreign Documentaries",
        "Religion & Mythology Documentaries", "Historical Documentaries",
        "Biographical Documentaries", "Faith & Spirituality Documentaries">>],
    [key |-> <<"Biography">>, values |-> <<"Biographical Documentaries",
        "Inspirational Biographies">>],
    [key |-> <<"Science Fiction">>, values |-> <<"Sci-Fi Thrillers",
        "Sci-Fi Adventure", "Action Sci-Fi & Fantasy">>],
    [key |-> <<"Thriller">>, values |-> <<"Sci-Fi Thrillers", "Thrillers",
        "Crime Thrillers">>],
    [key |-> <<"Talk">>, values |-> <<"Talk & Variety", "Talk Show">>],
    [key |-> <<"Variety">>, values |-> <<"Sketch Comedies">>],
    [key |-> <<"Home Improvement">>, values |-> <<"Art & Design", "DIY & How To",
        "Home Improvement">>],
    [key |-> <<"House/garden">>, values |-> <<"Home & Garden">>],
    [key |-> <<"Cooking">>, values |-> <<"Cooking Instruction", "Food & Wine",
        "Food Stories">>],
    [key |-> <<"Travel">>, values |-> <<"Travel & Adventure Documentaries",
        "Travel">>],
    [key |-> <<"Western">>, values |-> <<"Westerns", "Classic Westerns">>],
    [key |-> <<"LGBTQ">>, values |-> <<"Gay & Lesbian", "Gay & Lesbian Dramas",
        "Gay">>],
    [key |-> <<"Game show">>, values |-> <<"Game Show">>],
    [key |-> <<"Military">>, values |-> <<"Classic War Stories">>],
    [key |-> <<"Comedy">>, values |-> <<"Cult Comedies", "Spoofs and Satire",
        "Slapstick", "Classic Comedies", "Stand-Up", "Sports Comedies",
        "African-American Comedies", "Showbiz Comedies", "Sketch Comedies",
        "Teen Comedies", "Latino Comedies", "Family Comedies">>],
    [key |-> <<"Crime">>, values |-> <<"Crime Action", "Crime Drama",
        "Crime Documentaries">>],
    [key |-> <<"Sports">>, values |-> <<"Sports", "Sports & Sports Highlights",
        "Sports Documentaries", "Poker & Gambling">>],
    [key |-> <<"Poker & Gambling">>, values |-> <<"Poker & Gambling">>],
    [key |-> <<"Crime drama">>, values |-> <<"Crime Drama">>],
    [key |-> <<"Drama">>, values |-> <<"Classic Dramas", "Family Drama",
        "Indie Drama", "Romantic Drama", "Crime Drama">>],
    [key |-> <<"Children">>, values |-> <<"Kids", "Children & Family", "Kids' TV",
        "Cartoons", "Animals", "Family Animation", "Ages 2-4", "Ages 11-12">>]
>>

\* find_tuples_by_value returning at the first category that matches.
RECURSIVE FindTuplesFrom_FirstOnly(_, _, _, _)
FindTuplesFrom_FirstOnly(dictionary, i, target_value, result_list) ==
    IF i > Len(dictionary)
    THEN result_list
    ELSE IF \E j \in 1..Len(dictionary[i].values) : dictionary[i].values[j] = target_value
    THEN result_list \o dictionary[i].key
    ELSE FindTuplesFrom_FirstOnly(dictionary, i + 1, target_value, result_list)

\* The loop of find_tuples_by_value over dictionary.items(), from item i:
\* result_list.extend(key) appends the elements of the tuple key.
RECURSIVE FindTuplesFrom(_, _, _, _)
FindTuplesFrom(dictionary, i, target_value, result_list) ==
    IF i > Len(dictionary)
    THEN result_list
    ELSE IF \E j \in 1..Len(dictionary[i].values) : dictionary[i].values[j] = target_value
    THEN FindTuplesFrom(dictionary, i + 1, target_value, result_list \o dictionary[i].key)
    ELSE FindTuplesFrom(dictionary, i + 1, target_value, result_list)

\* Client.find_tuples_by_value(dictionary, target_value)
FindTuplesByValueOp(dictionary, target_value) ==
    LET result_list == FindTuplesFrom(dictionary, 1, target_value, <<>>)
    IN  IF result_list # <<>> THEN result_list ELSE <<target_value>>

\* Client.find_tuples_by_value(seriesGenres, target_value), as read_epg_data
\* calls it.
FindTuplesByValue(target_value) ==
    /\ last' = [NoCall EXCEPT !.op = "find_tuples_by_value",
                              !.src = <<target_value>>,
                              !.ret = "list",
                              !.data = <<FindTuplesByValueOp(SeriesGenres, target_value)>>]
    /\ UNCHANGED <<now, pool, pool_index, response_list, sessionAt, all_channels,
                   epg_data, pool_lock, threads, calls, served>>

\* The unique_list loop of read_epg_data: the items of categories in order of
\* first appearance.
RECURSIVE UniqueList(_, _, _)
UniqueList(categories, i, unique_list) ==
    IF i > Len(categories)
    THEN unique_list
    ELSE IF \E j \in 1..Len(unique_list) : unique_list[j] = categories[i]
    THEN UniqueList(categories, i + 1, unique_list)
    ELSE UniqueList(categories, i + 1, Append(unique_list, categories[i]))

\* A timeline of a page, with the fields read_epg_data branches on: start,
\* episode.clip.originalReleaseDate, episode.series.type ("": no type),
\* episode.season (<<>>: the key is absent) and episode.genre / subGenre
\* (None: the key is absent).
\* Programme is what read_epg_data adds to root for it: whether <live> is
\* there, the season and number of the onscreen episode-num (<<>>: no onscreen
\* and no pluto episode-num) and the categories.  With a tv
\* series and no season key, timeline["episode"]["season"] raises KeyError.
ProgrammeRaises(timeline) == timeline.type = "tv" /\ timeline.season = <<>>
Programme(channelId, timeline) ==
    LET stype == timeline.type
        numbered == <<[season |-> timeline.season[1], number |-> timeline.number]>>
        categories ==
            (IF timeline.genre # None
             THEN FindTuplesByValueOp(SeriesGenres, timeline.genre) ELSE <<>>) \o
            (IF stype = "tv" THEN <<"Series">> ELSE <<>>) \o
            (IF stype = "film" THEN <<"Movie">> ELSE <<>>) \o
            (IF timeline.subGenre # None
             THEN FindTuplesByValueOp(SeriesGenres, timeline.subGenre) ELSE <<>>)
    IN  [channel |-> channelId,
         start |-> timeline.start,
         live |-> stype = "live" /\ timeline.originalReleaseDate = timeline.start,
         episode_num |->
             IF stype = "live"
             THEN IF timeline.season # <<>> /\ timeline.season[1] # 0
                  THEN numbered ELSE <<>>
             ELSE IF stype = "tv" THEN numbered ELSE <<>>,
         categories |-> UniqueList(categories, 1, <<>>)]

\* The loops of read_epg_data over resp["data"] and entry["timelines"], from
\* timeline t of entry e; root is the list of programmes added so far.
RECURSIVE ReadEpgDataFrom(_, _, _, _)
ReadEpgDataFrom(resp, e, t, root) ==
    IF e > Len(resp.data)
    THEN [raised |-> FALSE, root |-> root]
    ELSE IF t > Len(resp.data[e].timelines)
    THEN ReadEpgDataFrom(resp, e + 1, 1, root)
    ELSE IF ProgrammeRaises(resp.data[e].timelines[t])
    THEN [raised |-> TRUE, root |-> root]
    ELSE ReadEpgDataFrom(resp, e, t + 1,
             Append(root, Programme(resp.data[e].channelId, resp.data[e].timelines[t])))

\* Client.read_epg_data(resp, root) on an empty root.
ReadEpgData(resp) ==
    \E r \in {ReadEpgDataFrom(resp, 1, 1, <<>>)} :
        /\ last' = [NoCall EXCEPT !.op = "read_epg_data",
                                  !.src = <<resp>>,
                                  !.data = IF r.raised THEN <<>> ELSE <<r.root>>,
                                  !.error = IF r.raised THEN "KeyError" ELSE None,
                                  !.ret = IF r.raised THEN "raise" ELSE "root"]
        /\ UNCHANGED <<now, pool, pool_index, response_list, sessionAt, all_channels,
                       epg_data, pool_lock, threads, calls, served>>

\* ------------------------------------------------------------ specifications
\* Token traffic: stream-token and metadata-token requests for any region,
\* with any outcome of the authentication call, while the clock advances.
Next ==
    \/ Tick
    \/ calls < MaxCalls /\ \E cc \in Regions, o \in AuthOutcomes : GetStreamToken(cc, o)
    \/ calls < MaxCalls /\ \E cc \in Regions, o \in AuthOutcomes : RespData(cc, o)

Spec == Init /\ [][Next]_vars

\* The channel lists a region's backend can return: up to MaxChannels channels
\* with distinct ids.
MaxChannels == 2
\* Number of catalog calls made in one behaviour.
MaxCatalogCalls == 3
ChannelIds == {"a", "b", "c"}
SourceNumbers == {5, 7005}
ChannelLists(ids, numbers, maxlen) ==
    UNION {{l \in [1..n -> [id : ids, number : numbers]] :
               \A i, j \in 1..n : i # j => l[i].id # l[j].id} : n \in 0..maxlen}

CatalogLists == ChannelLists(ChannelIds, SourceNumbers, MaxChannels)

AuthOk == [raises |-> FALSE, status |-> 200, hasToken |-> TRUE]
HttpOk == [raises |-> FALSE, status |-> 200]

\* Catalogs of the regions are fetched and merged, in any order, any number of
\* times; authentication and the two catalog requests succeed.
NextCatalog ==
    \/ /\ calls < MaxCatalogCalls
       /\ \E cc \in Regions, l \in CatalogLists :
             Channels(cc, AuthOk, [raises |-> FALSE, status |-> 200, data |-> l], HttpOk)
    \/ calls < MaxCatalogCalls /\ ChannelsAll

SpecCatalog == Init /\ [][NextCatalog]_vars

\* The channel lists of a fixed lineup whose source numbers vary: the i-th
\* channel has the i-th id.
MaxLineup == 3
LineupIds == <<"a", "b", "c", "d", "e">>
LineupNumbers == {5, 6, 7, 8}
LineupLists ==
    UNION {{[i \in 1..n |-> [id |-> LineupIds[i], number |-> f[i]]] :
               f \in [1..n -> LineupNumbers]} : n \in 0..MaxLineup}

\* One region's catalog is fetched, again and again, from any lineup.
NextNumbering ==
    /\ calls < MaxCatalogCalls
    /\ \E l \in LineupLists :
          Channels("uk", AuthOk, [raises |-> FALSE, status |-> 200, data |-> l], HttpOk)

SpecNumbering == Init /\ [][NextNumbering]_vars

\* The channel lists of a fixed lineup with fixed source numbers.
GuideLists ==
    {[i \in 1..n |-> [id |-> LineupIds[i], number |-> i]] : n \in 0..MaxLineup}
\* The outcomes of the requests of one channels call, up to the first one
\* that ends the call: the authentication call, the channel-list request and
\* the category request.  Requests after a failed one are never made.
NoRequest == [raises |-> TRUE, status |-> 0]
ChannelsOutcomes ==
    {<<o, [raises |-> TRUE, status |-> 0, data |-> <<>>], NoRequest>> :
        o \in AuthOutcomes} \cup
    {<<AuthOk, [raises |-> h.raises, status |-> h.status, data |-> <<>>], NoRequest>> :
        h \in {x \in HttpOutcomes : HttpFailed(x)}} \cup
    {<<AuthOk, [raises |-> FALSE, status |-> 200, data |-> l], h>> :
        l \in GuideLists, h \in HttpOutcomes}
\* The outcome of the timeline requests of one update_epg call: all succeed, or
\* request number fail_at raises or answers 500.
NoTimelineFailure == [fail_at |-> 0, raises |-> FALSE, status |-> 200, minutes |-> 720]
TimelineOutcomes ==
    {NoTimelineFailure} \cup
    [fail_at : 1..(RANGE_COUNT * MaxLineup), raises : BOOLEAN, status : {500},
     minutes : {720}]
\* The timeline requests are reached only when the catalog was fetched.
UpdateEpgOutcomes ==
    {<<c, tl>> \in ChannelsOutcomes \X TimelineOutcomes :
        (c[1] # AuthOk \/ HttpFailed(c[2]) \/ HttpFailed(c[3])) => tl = NoTimelineFailure}

\* The caller-facing operations that need a token, with every outcome of the
\* authentication call and of the catalog and timeline requests.
NextApi ==
    \/ calls < MaxCalls /\ \E cc \in Regions, o \in AuthOutcomes : GetStreamToken(cc, o)
    \/ /\ calls < MaxCalls
       /\ \E cc \in Regions, c \in ChannelsOutcomes : Channels(cc, c[1], c[2], c[3])
    \/ /\ calls < MaxCalls
       /\ \E cc \in Regions, u \in UpdateEpgOutcomes :
             UpdateEpg(cc, RANGE_COUNT, 0, u[1][1], u[1][2], u[1][3], u[2])

SpecApi == Init /\ [][NextApi]_vars

\* The catalog of a region is fetched again and again at one hour, with every
\* outcome of the authentication call, the channel-list request and the
\* category request.
NextFetch ==
    /\ calls < MaxCatalogCalls
    /\ \E cc \in Regions, c \in ChannelsOutcomes : Channels(cc, c[1], c[2], c[3])

SpecFetch == Init /\ [][NextFetch]_vars

\* The guide of a region is fetched, and the guides of a list of regions are
\* fetched and deduplicated, at any minute of the hour; authentication and the
\* catalog requests succeed, and any one timeline request may fail.
MaxGuideCalls == 2
MinutesPastHour == {0, 30}
WindowMinutes == {90, 720}
\* The most timeline requests one update_epg call can issue.
MaxRequests == RANGE_COUNT * ((MaxLineup + GROUP_SIZE - 1) \div GROUP_SIZE)
\* The minute of the call and the outcome of its timeline requests: every
\* request succeeds, or one request fails, by raising (an odd request) or by
\* answering 500 (an even one).  The minute is drawn for the runs that reach
\* the end of a window.
GuideCalls ==
    (MinutesPastHour \X
        [fail_at : {0}, raises : {FALSE}, status : {200}, minutes : WindowMinutes]) \cup
    {<<0, [fail_at |-> n, raises |-> (n % 2 = 1), status |-> 500, minutes |-> 720]>> :
        n \in 1..MaxRequests}
\* The outcomes of the requests get_all_epg_data makes for one region: the
\* catalog is empty, has one channel or is the whole lineup, and the timeline
\* requests succeed or the first or second of them fails.
GuideRuns ==
    {[o |-> AuthOk, chan |-> [raises |-> FALSE, status |-> 200, data |-> l],
      cat |-> HttpOk, tl |-> tl] :
        l \in {g \in GuideLists : Len(g) \in {0, 1, MaxLineup}},
        tl \in {NoTimelineFailure,
                [fail_at |-> 1, raises |-> TRUE, status |-> 0, minutes |-> 720],
                [fail_at |-> 2, raises |-> FALSE, status |-> 500, minutes |-> 720]}}
\* A run that ends get_all_epg_data: the regions after it are not fetched.
EndsRun(run) == run.tl # NoTimelineFailure \/ run.chan.data = <<>>
NotReached == [o |-> AuthOk, chan |-> [raises |-> FALSE, status |-> 200, data |-> <<>>],
               cat |-> HttpOk, tl |-> NoTimelineFailure]
RegionLists == {<<"uk">>, <<"uk", "local">>, <<"local", "uk">>, <<"uk", "uk">>}
GuideInputs ==
    UNION {{l} \X {outs \in [1..Len(l) -> GuideRuns] :
                      /\ \A n \in 1..Len(l) :
                            outs[n].chan.data = <<>> => outs[n].tl = NoTimelineFailure
                      /\ \A n \in 2..Len(l) :
                            EndsRun(outs[n - 1]) => outs[n] = NotReached} :
           l \in RegionLists}

NextGuide ==
    \/ /\ calls < MaxGuideCalls
       /\ \E cc \in Regions, l \in GuideLists, c \in GuideCalls :
             UpdateEpg(cc, RANGE_COUNT, c[1], AuthOk,
                       [raises |-> FALSE, status |-> 200, data |-> l], HttpOk, c[2])
    \/ /\ calls < MaxGuideCalls
       /\ \E in \in GuideInputs : GetAllEpgData(in[1], 0, in[2])

SpecGuide == Init /\ [][NextGuide]_vars

\* The guide file of a list of regions is written, run after run, by one
\* Client.
NextFile ==
    /\ calls < MaxGuideCalls
    /\ \E in \in GuideInputs : CreateXmlFile(in[1], 0, in[2])

SpecFile == Init /\ [][NextFile]_vars

\* Threads call get_stream_token for one region at once while the clock
\* advances; the steps
\* of the callers interleave in any order and a request may take any time.
ThreadAuthOutcomes ==
    {AuthOk, [raises |-> TRUE, status |-> 0, hasToken |-> FALSE],
     [raises |-> FALSE, status |-> 500, hasToken |-> FALSE]}
\* Latest hour the clock reaches while the threads run.
MaxThreadTime == 1
NextThreads ==
    \/ now < MaxThreadTime /\ Tick
    \/ calls < MaxCalls /\ \E th \in Threads : CallGetStreamToken(th, "uk")
    \/ \E th \in Threads : AcquireLock(th)
    \/ \E th \in Threads : SelectSlot(th)
    \/ \E th \in Threads : IncrementIndex(th)
    \/ \E th \in Threads : ReleaseLock(th)
    \/ \E th \in Threads : BootBegin(th)
    \/ \E th \in Threads, o \in ThreadAuthOutcomes : AuthReturns(th, o)
    \/ \E th \in Threads : StoreResponse(th)
    \/ \E th \in Threads : StoreSessionAt(th)
    \/ \E th \in Threads : ReturnStreamToken(th)

SpecThreads == Init /\ [][NextThreads]_vars

\* Each thread's steps other than the return of its request: the scheduler
\* runs every thread that can run.
ThreadLocal(th) ==
    \/ AcquireLock(th)
    \/ SelectSlot(th)
    \/ IncrementIndex(th)
    \/ ReleaseLock(th)
    \/ BootBegin(th)
    \/ StoreResponse(th)
    \/ StoreSessionAt(th)
    \/ ReturnStreamToken(th)
\* Up to one call per thread, at one instant.  Every thread that can take a
\* step eventually takes it; the requests of every thread but thread 1 are
\* answered, and the request of thread 1 may stay unanswered for ever.
NextStuck ==
    \/ calls < MaxThreads /\ \E th \in Threads : CallGetStreamToken(th, "uk")
    \/ \E th \in Threads : ThreadLocal(th)
    \/ \E th \in Threads, o \in ThreadAuthOutcomes : AuthReturns(th, o)

SpecThreadsFair ==
    /\ Init
    /\ [][NextStuck]_vars
    /\ \A th \in Threads : WF_vars(ThreadLocal(th))
    /\ \A th \in Threads \ {1} : WF_vars(\E o \in ThreadAuthOutcomes : AuthReturns(th, o))

\* The strings read_epg_data classifies: every subgenre and every category
\* name of the taxonomy, and a string that is in neither.
GenreInputs ==
    UNION {{SeriesGenres[i].values[j] : j \in 1..Len(SeriesGenres[i].values)} \cup
           {SeriesGenres[i].key[1]} : i \in 1..Len(SeriesGenres)} \cup
    {"Unmapped Thing"}
\* The timelines of a page: every series type with a release date that is or
\* is not the start and a season that is absent, 0 or 2; and tv and film
\* programmes with every pairing of some genres and subgenres.
TimelineCases ==
    [start : {10}, originalReleaseDate : {3, 10}, type : {"live", "tv", "film", ""},
     season : {<<>>, <<0>>, <<2>>}, number : {1}, genre : {None}, subGenre : {None}] \cup
    [start : {10}, originalReleaseDate : {3}, type : {"tv", "film"},
     season : {<<2>>}, number : {1},
     genre : {None, "Action & Adventure", "Unmapped Thing"},
     subGenre : {None, "Sci-Fi Adventure", "Martial Arts"}]
\* Longest list of timelines of one entry.
MaxTimelines == 2
GuidePages ==
    {[data |-> <<[channelId |-> "a", timelines |-> tls]>>] :
        tls \in UNION {[1..n -> TimelineCases] : n \in 1..MaxTimelines}} \cup
    {[data |-> <<[channelId |-> "a", timelines |-> <<t1>>],
                 [channelId |-> "b", timelines |-> <<t2>>]>>] :
        t1 \in TimelineCases, t2 \in TimelineCases}

\* A string is classified or a page is turned into programmes: the two are
\* functions of their arguments, so a behaviour makes one call.
NextXml ==
    \/ last.op = "none" /\ \E target_value \in GenreInputs : FindTuplesByValue(target_value)
    \/ last.op = "none" /\ \E resp \in GuidePages : ReadEpgData(resp)

SpecXml == Init /\ [][NextXml]_vars

\* =================================================================== claims
\* A step that is one API call.
IsCall == calls' = calls + 1

\* C1: starting from a fresh Client, the k-th sequential get_stream_token call
\* boots the slot at position (k-1) mod N, whether or not its authentication
\* succeeds: N calls use N distinct slots in creation order and call N+1
\* reuses the slot of call 1.
C1_RoundRobin ==
    /\ Len(served) = pool_index
    /\ \A k \in 1..Len(served) : served[k] = (k - 1) % STREAM_POOL_SIZE
    /\ \A j, k \in 1..Len(served) :
          (j < k /\ k <= STREAM_POOL_SIZE) => served[j] # served[k]
    /\ Len(served) > STREAM_POOL_SIZE => served[STREAM_POOL_SIZE + 1] = served[1]

\* Call N+1 has just been made, it failed, and it used the slot of call 1.
C1_Witness ==
    /\ Len(served) = STREAM_POOL_SIZE + 1
    /\ last.op = "get_stream_token"
    /\ last.error # None
    /\ last.slot = <<served[1]>>

\* C2: for every slot and region, boot returns the cached response with no
\* authentication call when a response for the region was cached on the slot
\* less than 4 hours ago, and makes exactly one authentication call when none
\* is cached or the cached one is 4 hours old or older.
C2_BootCache ==
    [][\A s \in Slots, cc \in Regions :
          (IsCall /\ last'.booted /\ last'.slot = <<s>> /\ last'.cc = cc) =>
             IF /\ cc \in DOMAIN pool[s].response_list
                /\ now - pool[s].response_list[cc].issuedAt < FRESH_HOURS
             THEN /\ last'.auth = 0
                  /\ last'.error = None
                  /\ last'.resp = <<pool[s].response_list[cc]>>
                  /\ pool' = pool
             ELSE last'.auth = 1]_vars

\* boot has just returned a response cached 3 hours ago without authenticating.
C2_Witness ==
    /\ last.booted
    /\ last.auth = 0
    /\ last.resp # <<>>
    /\ now - last.resp[1].issuedAt = FRESH_HOURS - 1

\* C3: the slot resp_data authenticates with is reserved for metadata: no
\* round-robin get_stream_token call is ever served by it.
C3_MetadataSlotReserved ==
    \A k \in 1..Len(served) : served[k] # MetadataSlot

\* C4: in any sequence of get_stream_token and resp_data calls, every token
\* resp_data returns is fresh: the authentication call that produced it
\* happened less than 4 hours before the return.
C4_RespDataFresh ==
    (last.op = "resp_data" /\ last.token # None) =>
        now - last.resp[1].issuedAt < FRESH_HOURS

\* C5: when an authentication call fails, the call returns the error and no
\* response, and neither the slot caches nor the Client cache change, for any
\* region.
C5_FailedAuthKeepsCache ==
    [][(IsCall /\ last'.auth = 1 /\ last'.error # None) =>
          /\ last'.resp = <<>>
          /\ pool' = pool
          /\ response_list' = response_list
          /\ sessionAt' = sessionAt]_vars

\* resp_data has just failed to authenticate for one region while the Client
\* cache holds a fresh response of another region.
C5_Witness ==
    /\ last.op = "resp_data"
    /\ last.auth = 1
    /\ last.error # None
    /\ \E cc \in DOMAIN response_list :
          /\ cc # last.cc
          /\ cc \in DOMAIN pool[MetadataSlot].response_list
          /\ now - sessionAt[cc] < FRESH_HOURS


\* The call of the latest step got a successful authentication response that
\* lacks the sessionToken field.
Malformed(op) ==
    /\ last.op = op
    /\ last.resp # <<>>
    /\ SessionToken(last.resp[1]) = None

\* C6: when a successful authentication response lacks the session token,
\* get_stream_token, channels and update_epg each return a non-empty error and
\* no data; none returns a result in which both data and error are absent.
C6_MalformedSurfaced ==
    \A op \in {"get_stream_token", "channels", "update_epg"} :
        Malformed(op) => last.error # None /\ last.token = None /\ last.data = <<>>

\* ---------------------------------------------------------- catalog claims
\* The smallest number >= n that is not in used.
SmallestFree(n, used) ==
    CHOOSE m \in n..(n + Cardinality(used)) :
        m \notin used /\ \A x \in n..(m - 1) : x \in used

\* The number the record with the given id has in a list of records.
NumberOf(list, id) == list[CHOOSE i \in 1..Len(list) : list[i].id = id].number

\* channels has just returned a catalog.
ReturnedCatalog == last.op = "channels" /\ last.data # <<>>

\* C7: in the catalog channels(region) returns, the numbers are pairwise
\* distinct and each channel's number is the smallest number >= its source
\* number that no channel earlier in source order was given; source numbers
\* [5, 5, 7] give [5, 6, 7].
C7_RegionNumbering ==
    /\ ReturnedCatalog =>
         LET src == last.src
             out == last.data[1]
         IN  /\ Len(out) = Len(src)
             /\ \A i, j \in 1..Len(out) : i # j => out[i].number # out[j].number
             /\ \A i \in 1..Len(src) :
                  NumberOf(out, src[i].id) =
                     SmallestFree(src[i].number,
                                  {NumberOf(out, src[j].id) : j \in 1..(i - 1)})
    /\ LET ex == Stations(<<[id |-> "a", number |-> 5], [id |-> "b", number |-> 5],
                            [id |-> "c", number |-> 7]>>, "uk")
       IN  <<ex[1].number, ex[2].number, ex[3].number>> = <<5, 6, 7>>

\* channels has just returned a catalog in which a channel was bumped past a
\* number that an earlier channel holds: source [5, 5, 6] or [5, 6, 5].
C7_Witness ==
    /\ ReturnedCatalog
    /\ Len(last.src) = 3
    /\ \E i \in 1..3 : NumberOf(last.data[1], last.src[i].id) >= last.src[i].number + 2

\* channels_all has just returned the merge of the catalogs in last.src.
Merged == last.op = "channels_all" /\ last.data # <<>>

\* The ids a stored catalog lists.
IdsOf(catalog) == {catalog[i].id : i \in 1..Len(catalog)}

\* The first region, in dict order, whose catalog lists the id, and the first
\* record with that id in it.
FirstRegion(ac, id) ==
    CHOOSE k \in 1..Len(ac) :
        id \in IdsOf(ac[k].val) /\ \A h \in 1..(k - 1) : id \notin IdsOf(ac[h].val)
FirstRecord(ac, id) ==
    LET val == ac[FirstRegion(ac, id)].val
    IN  val[CHOOSE i \in 1..Len(val) :
                val[i].id = id /\ \A h \in 1..(i - 1) : val[h].id # id]

\* C8: the result of channels_all holds every channel id of any stored catalog
\* exactly once, and the record kept for an id is the one of the first region,
\* in processing order, whose catalog lists the id.
C8_MergeDedup ==
    Merged =>
        LET ac == last.src
            out == last.data[1]
        IN  /\ {out[j].id : j \in 1..Len(out)} =
                  UNION {IdsOf(ac[k].val) : k \in 1..Len(ac)}
            /\ \A i, j \in 1..Len(out) : i # j => out[i].id # out[j].id
            /\ \A j \in 1..Len(out) :
                  /\ out[j].country_code = ac[FirstRegion(ac, out[j].id)].key
                  /\ out[j].country_code = FirstRecord(ac, out[j].id).country_code
                  /\ out[j].number >= FirstRecord(ac, out[j].id).number

\* A merge of two catalogs that list a common id with different numbers.
C8_Witness ==
    /\ Merged
    /\ Len(last.src) = 2
    /\ \E i \in 1..Len(last.src[1].val), j \in 1..Len(last.src[2].val) :
          /\ last.src[1].val[i].id = last.src[2].val[j].id
          /\ last.src[1].val[i].number # last.src[2].val[j].number

\* The offset table of the merge.
RegionOffsets == [ca |-> 6000, uk |-> 7000, fr |-> 8000, de |-> 9000]

\* The number a record takes into collision resolution: its number plus its
\* region's offset exactly when the region is in the table and the number is
\* below the offset.
OffsetNumber(rec) ==
    IF /\ rec.country_code \in DOMAIN RegionOffsets
       /\ rec.number < RegionOffsets[rec.country_code]
    THEN rec.number + RegionOffsets[rec.country_code]
    ELSE rec.number

\* One stored catalog holding one channel.
OneChannel(cc, id, number) ==
    [key |-> cc, val |-> <<[id |-> id, number |-> number, country_code |-> cc]>>]
\* The numbers of a merge result, in order.
Numbers(list) == [j \in 1..Len(list) |-> list[j].number]

\* C9: in channels_all the region offset (ca 6000, uk 7000, fr 8000, de 9000)
\* is added to a channel's number exactly when its region is in the table and
\* its current number is below the offset; any other channel keeps its number
\* unless a collision bumps it.  uk [50] merged with local [50] gives uk 7050
\* and local 50.
C9_MergeOffset ==
    /\ Merged =>
         LET ac == last.src
             out == last.data[1]
         IN  \A j \in 1..Len(out) :
                LET rec == FirstRecord(ac, out[j].id)
                IN  /\ out[j].number >= OffsetNumber(rec)
                    /\ OffsetNumber(rec) \notin {out[i].number : i \in 1..(j - 1)} =>
                          out[j].number = OffsetNumber(rec)
    /\ Numbers(ChannelsAllOp(<<OneChannel("uk", "a", 50),
                               OneChannel("local", "b", 50)>>).data) = <<7050, 50>>
    /\ Numbers(ChannelsAllOp(<<OneChannel("ca", "a", 50), OneChannel("fr", "b", 50),
                               OneChannel("de", "c", 50), OneChannel("us_east", "d", 50)>>).data)
          = <<6050, 8050, 9050, 50>>

\* A merge in which a uk channel below 7000 was offset, a uk channel at or above
\* 7000 was not, and a local channel kept its number.
C9_Witness ==
    /\ Merged
    /\ \E j \in 1..Len(last.data[1]) :
          LET rec == FirstRecord(last.src, last.data[1][j].id)
          IN  /\ rec.country_code = "uk"
              /\ rec.number < 7000
              /\ last.data[1][j].number = rec.number + 7000
    /\ \E j \in 1..Len(last.data[1]) :
          LET rec == FirstRecord(last.src, last.data[1][j].id)
          IN  /\ rec.country_code = "uk"
              /\ rec.number >= 7000
              /\ last.data[1][j].number < rec.number + 7000
    /\ \E j \in 1..Len(last.data[1]) :
          LET rec == FirstRecord(last.src, last.data[1][j].id)
          IN  /\ rec.country_code = "local"
              /\ last.data[1][j].number = rec.number

\* C10: after channels_all the numbers of the merged result are pairwise
\* distinct across all regions, table or not: a channel whose number after
\* offsetting was already given to an earlier-processed channel is incremented
\* by 1 until its number is free.  Two entries resolving to 7050 end as 7050
\* and 7051.
C10_MergeDistinct ==
    /\ Merged =>
         LET ac == last.src
             out == last.data[1]
         IN  /\ \A i, j \in 1..Len(out) : i # j => out[i].number # out[j].number
             /\ \A j \in 1..Len(out) :
                   out[j].number =
                      SmallestFree(OffsetNumber(FirstRecord(ac, out[j].id)),
                                   {out[i].number : i \in 1..(j - 1)})
    /\ Numbers(ChannelsAllOp(<<OneChannel("local", "a", 7050),
                               OneChannel("uk", "b", 50)>>).data) = <<7050, 7051>>

\* A merge in which a local channel and a uk channel resolved to the same
\* number and the later-processed one was incremented.
C10_Witness ==
    /\ Merged
    /\ \E i, j \in 1..Len(last.data[1]) :
          LET ri == FirstRecord(last.src, last.data[1][i].id)
              rj == FirstRecord(last.src, last.data[1][j].id)
          IN  /\ i < j
              /\ ri.country_code # rj.country_code
              /\ OffsetNumber(ri) = OffsetNumber(rj)
              /\ last.data[1][j].number > OffsetNumber(rj)

\* get_all_epg_data returned a list of pages.
Deduplicated == last.op = "get_all_epg_data" /\ last.ret = "list"

\* The number of entries for the channel of entry i of page k that come before
\* it in processing order: on earlier pages, or earlier on the same page.
EarlierOccurrences(pages, k, i) ==
    Cardinality({p \in {<<k2, i2>> \in (1..k) \X (1..MaxLineup) :
                           i2 <= Len(pages[k2].data) /\ (k2 < k \/ i2 < i)} :
                    pages[p[1]].data[p[2]].channelId = pages[k].data[i].channelId})

\* The entries of page k that are among the first n occurrences of their
\* channel, in page order.
RECURSIVE FirstOccurrences(_, _, _, _)
FirstOccurrences(pages, k, i, n) ==
    IF i > Len(pages[k].data)
    THEN <<>>
    ELSE (IF EarlierOccurrences(pages, k, i) < n THEN <<pages[k].data[i]>> ELSE <<>>)
         \o FirstOccurrences(pages, k, i + 1, n)

\* The number of entries of the pages that are for channel id.
Occurrences(pages, id) ==
    Cardinality({p \in (1..Len(pages)) \X (1..MaxLineup) :
                    p[2] <= Len(pages[p[1]].data) /\ pages[p[1]].data[p[2]].channelId = id})

\* C11: the list get_all_epg_data returns has one page per fetched page, in
\* processing order; each holds exactly the entries of the fetched page that
\* are among the first range_count occurrences of their channel id, so no
\* channel id has more than range_count entries in the output.
C11_DedupeFirstOccurrences ==
    Deduplicated =>
        /\ Len(last.data[1]) = Len(last.src)
        /\ \A k \in 1..Len(last.src) :
              last.data[1][k].data = FirstOccurrences(last.src, k, 1, RANGE_COUNT)
        /\ \A id \in {LineupIds[i] : i \in 1..MaxLineup} :
              Occurrences(last.data[1], id) <= RANGE_COUNT

\* Two regions were fetched; a channel of the first region is also in the
\* second, whose pages were returned without it, and with their other entries.
C11_Witness ==
    /\ Deduplicated
    /\ Len(last.src) > RANGE_COUNT
    /\ Occurrences(last.src, "a") = 2 * RANGE_COUNT
    /\ Occurrences(last.data[1], "a") = RANGE_COUNT
    /\ \A k \in 1..RANGE_COUNT : last.data[1][k].data = <<[channelId |-> "a"]>>
    /\ \A k \in (RANGE_COUNT + 1)..Len(last.src) :
          \A i \in 1..Len(last.data[1][k].data) : last.data[1][k].data[i].channelId # "a"
    /\ \E k \in (RANGE_COUNT + 1)..Len(last.src) :
          /\ last.data[1][k].data # <<>>
          /\ Len(last.data[1][k].data) < Len(last.src[k].data)

\* The number of batches of a catalog of n channels, and the number of
\* timeline requests a complete run makes for it.
BatchesOf(n) == (n + GROUP_SIZE - 1) \div GROUP_SIZE
RequestsOf(run) == RANGE_COUNT * BatchesOf(Len(run.catalog))
\* In the run, one of the batch requests fails.
BatchFails(run) == run.fail_at \in 1..RequestsOf(run)
\* The run fetches every window of its region.
RunCompletes(run) == run.catalog # <<>> /\ ~BatchFails(run)
TimelineErrors == {"Error Exception type", "HTTP failure"}
\* Dict d2 holds for key k what dict d1 holds for it.
SameEntry(d1, d2, k) ==
    /\ k \in DOMAIN d1 <=> k \in DOMAIN d2
    /\ k \in DOMAIN d1 => d1[k] = d2[k]

\* C12: when a batch request of update_epg fails, the failed request is the
\* last one issued, the tuple (None, error) is returned and epg_data is as it
\* was before the call; when that happens in a run of get_all_epg_data, the
\* earlier regions having been fetched, get_all_epg_data returns the same
\* tuple and no list, and the guide of the failed region is as it was before
\* its run.
C12_BatchFailureAborts ==
    [][/\ (IsCall /\ last'.op = "update_epg" /\ BatchFails(last'.env[1])) =>
             /\ last'.timeline_requests = last'.env[1].fail_at
             /\ last'.ret = "tuple"
             /\ last'.error \in TimelineErrors
             /\ epg_data' = epg_data
       /\ (IsCall /\ last'.op = "get_all_epg_data") =>
             \A n \in 1..Len(last'.env) :
                 (BatchFails(last'.env[n]) /\
                  \A m \in 1..(n - 1) : RunCompletes(last'.env[m])) =>
                     /\ last'.ret = "tuple"
                     /\ last'.data = <<>>
                     /\ last'.error \in TimelineErrors
                     /\ (\A m \in 1..(n - 1) :
                            last'.env[m].region # last'.env[n].region) =>
                           SameEntry(epg_data, epg_data', last'.env[n].region)
                     /\ (\E m \in 1..(n - 1) :
                            last'.env[m].region = last'.env[n].region) =>
                           /\ last'.env[n].region \in DOMAIN epg_data'
                           /\ Len(epg_data'[last'.env[n].region]) =
                                 RequestsOf(last'.env[n - 1])]_vars

\* A region whose guide is stored is fetched again; a request of the second
\* window fails and the stored guide is still there.
C12_Witness ==
    /\ last.op = "update_epg"
    /\ last.error = "HTTP failure"
    /\ BatchFails(last.env[1])
    /\ last.env[1].fail_at > BatchesOf(Len(last.env[1].catalog))
    /\ last.cc \in DOMAIN epg_data
    /\ Len(epg_data[last.cc]) = RANGE_COUNT

\* update_epg fetched every window and stored the pages.
GuideStored == last.op = "update_epg" /\ last.ret = "None"
\* The ids of the catalog update_epg got from channels, in catalog order.
IdValues == [i \in 1..Len(last.src) |-> last.src[i].id]
\* The window (from 0) and the batch (from 1) of the p-th request of a run
\* that has b batches.
WindowOf(p, b) == (p - 1) \div b
BatchOf(p, b) == ((p - 1) % b) + 1

\* C13: in the pages a complete run stores, in request order, the requests
\* of window 0 start at the hour of the call, the requests of window i+1 start
\* at the hour of the end time reported for window i, and every request of
\* window i comes before every request of window i+1; a run in which a request
\* fails issues no request after it.
C13_WindowsInSequence ==
    /\ GuideStored =>
          LET pages == epg_data[last.cc]
              b == BatchesOf(Len(last.src))
          IN  \A p \in 1..Len(pages) :
                  /\ WindowOf(p, b) = 0 => pages[p].start = now
                  /\ WindowOf(p, b) > 0 =>
                        pages[p].start = pages[WindowOf(p, b) * b].endDateTime \div 60
                  /\ p < Len(pages) => WindowOf(p, b) <= WindowOf(p + 1, b)
                  /\ pages[p].channelIds =
                        SubSeq(IdValues, (BatchOf(p, b) - 1) * GROUP_SIZE + 1,
                               IF BatchOf(p, b) * GROUP_SIZE < Len(IdValues)
                               THEN BatchOf(p, b) * GROUP_SIZE ELSE Len(IdValues))
    /\ (last.op = "update_epg" /\ BatchFails(last.env[1])) =>
          last.timeline_requests = last.env[1].fail_at

\* A run of several batches per window whose windows end 90 minutes after
\* they start: each window starts one hour after the one before.
C13_Witness ==
    /\ GuideStored
    /\ BatchesOf(Len(last.src)) > 1
    /\ Len(epg_data[last.cc]) = RANGE_COUNT * BatchesOf(Len(last.src))
    /\ epg_data[last.cc][1].endDateTime % 60 # 0
    /\ epg_data[last.cc][Len(epg_data[last.cc])].start = now + RANGE_COUNT - 1

\* C20: the batches of update_epg are consecutive slices of the catalog's ids,
\* none empty and none longer than the batch size, which put together give
\* the ids again; each window requests each batch once, in order, and a
\* complete run for a catalog of n > 0 channels stores
\* range_count * ceil(n / batch size) pages.
C20_BatchPartition ==
    (GuideStored /\ last.src # <<>>) =>
        LET pages == epg_data[last.cc]
            b == BatchesOf(Len(last.src))
        IN  /\ Len(pages) = RANGE_COUNT * b
            /\ \A p \in 1..Len(pages) :
                  /\ pages[p].channelIds # <<>>
                  /\ Len(pages[p].channelIds) <= GROUP_SIZE
            /\ \A w \in 0..(RANGE_COUNT - 1) :
                  /\ \A i \in 1..Len(IdValues) :
                        Cardinality({<<k, j>> \in (1..b) \X (1..GROUP_SIZE) :
                            /\ j <= Len(pages[w * b + k].channelIds)
                            /\ (k - 1) * GROUP_SIZE + j = i
                            /\ pages[w * b + k].channelIds[j] = IdValues[i]}) = 1
                  /\ \A k \in 1..b :
                        \A j \in 1..Len(pages[w * b + k].channelIds) :
                            (k - 1) * GROUP_SIZE + j <= Len(IdValues)

\* A catalog that does not divide into full batches: the last batch of each
\* window is shorter than the others.
C20_Witness ==
    /\ GuideStored
    /\ Len(last.src) > GROUP_SIZE
    /\ Len(last.src) % GROUP_SIZE # 0
    /\ Len(epg_data[last.cc]) = RANGE_COUNT * (Len(last.src) \div GROUP_SIZE + 1)
    /\ Len(epg_data[last.cc][Len(epg_data[last.cc])].channelIds) = Len(last.src) % GROUP_SIZE

\* The threads that are inside the with block of _next_slot.
InNextSlot == {th \in Threads : threads[th].pc \in {"select", "increment", "release"}}
\* The threads that have selected a slot and not yet returned.
Holding == {th \in Threads : threads[th].slot # <<>>}

\* C14: under every interleaving, the k-th selection made is slot (k-1) mod N
\* and the index has been advanced once per completed selection (so no index
\* is skipped or handed out twice), at most one caller is between the read
\* and the increment, any N consecutive selections are of N distinct slots,
\* and the callers of the first N selections hold distinct slots.
C14_AtomicSelection ==
    /\ \A k \in 1..Len(served) : served[k] = (k - 1) % STREAM_POOL_SIZE
    /\ pool_index = Len(served) - Cardinality({th \in Threads : threads[th].pc = "increment"})
    /\ Cardinality(InNextSlot) <= 1
    /\ \A i, j \in 1..Len(served) :
          (i < j /\ j - i < STREAM_POOL_SIZE) => served[i] # served[j]
    /\ Len(served) <= STREAM_POOL_SIZE =>
          \A th1, th2 \in Holding :
              th1 # th2 => threads[th1].slot # threads[th2].slot

\* Two callers have selected at once, one waiting for the lock while the other
\* was inside the with block, and are now inside boot on different slots.
C14_Witness ==
    /\ Len(served) = 2
    /\ pool_index = 2
    /\ threads[1].pc = "request"
    /\ threads[2].pc = "request"
    /\ threads[1].slot # threads[2].slot

\* C17: the lock is held only by a thread inside the with block of
\* _next_slot, never by one inside boot; and while the request of one caller
\* stays unanswered, every other caller that waits for the lock goes on to
\* select a slot, boot it and return.
C17_LockOnlyAroundSelection ==
    /\ [](pool_lock # Unheld => pool_lock \in InNextSlot)
    /\ \A th \in Threads \ {1} :
          (threads[th].pc = "acquire") ~> (threads[th].pc = "return")

\* Thread 1 is inside its authentication request on one slot; thread 2 called
\* after it, is inside its own request on another slot, and the lock is free.
C17_Witness ==
    /\ threads[1].pc = "request"
    /\ threads[2].pc = "request"
    /\ threads[1].slot = <<0>>
    /\ threads[2].slot = <<1>>
    /\ pool_lock = Unheld

\* C18: for every slot and region, the time recorded in sessionAt never
\* decreases, and a cached response that is still fresh is not replaced by one
\* that was issued earlier.
C18_RefreshOnlyFresher ==
    [][\A i \in Slots : \A cc \in DOMAIN pool[i].sessionAt :
          /\ cc \in DOMAIN pool'[i].sessionAt
          /\ pool'[i].sessionAt[cc] >= pool[i].sessionAt[cc]
          /\ (BootCached(pool[i], cc, now) /\ cc \in DOMAIN pool'[i].response_list) =>
                pool'[i].response_list[cc].issuedAt >= pool[i].response_list[cc].issuedAt]_vars

\* A string was classified: Target is the string, Classified the result.
Classifying == last.op = "find_tuples_by_value"
Target == last.src[1]
Classified == last.data[1]
\* The positions in the taxonomy of the categories whose subgenre list
\* contains s, and the names of those categories in taxonomy order.
Containing(s) ==
    {i \in 1..Len(SeriesGenres) :
        \E j \in 1..Len(SeriesGenres[i].values) : SeriesGenres[i].values[j] = s}
NamesContaining(s) ==
    [n \in 1..Cardinality(Containing(s)) |->
        SeriesGenres[CHOOSE i \in Containing(s) :
            Cardinality({k \in Containing(s) : k < i}) = n - 1].key[1]]

\* C15 as stated: the result is the names of the categories containing s, in
\* taxonomy order, and it is <<s>> exactly when no category contains s.
C15_ClassifyExactlyWhen ==
    Classifying =>
        /\ Containing(Target) # {} => Classified = NamesContaining(Target)
        /\ Classified = <<Target>> <=> Containing(Target) = {}

\* C15, amended: the result is the names of the categories containing s, in
\* taxonomy order, when there is one, and <<s>> when there is none; the
\* result is also <<s>> when the only category containing s is named s.
C15_Classify ==
    /\ Classifying =>
          /\ Containing(Target) # {} => Classified = NamesContaining(Target)
          /\ Containing(Target) = {} => Classified = <<Target>>
          /\ Classified = <<Target>> =>
                \/ Containing(Target) = {}
                \/ NamesContaining(Target) = <<Target>>
    /\ FindTuplesByValueOp(SeriesGenres, "Martial Arts") = <<"Action">>
    /\ FindTuplesByValueOp(SeriesGenres, "Unmapped Thing") = <<"Unmapped Thing">>

\* A subgenre of two categories was classified.
C15_Witness ==
    /\ Classifying
    /\ Target = "Sci-Fi Adventure"
    /\ Classified = <<"Adventure", "Science Fiction">>

\* Pages were turned into programmes: Timelines are the timelines of the page
\* in order, Programmes the programmes made of them.
Built == last.op = "read_epg_data" /\ last.ret = "root"
RECURSIVE TimelinesFrom(_, _)
TimelinesFrom(resp, e) ==
    IF e > Len(resp.data) THEN <<>>
    ELSE resp.data[e].timelines \o TimelinesFrom(resp, e + 1)
Timelines == TimelinesFrom(last.src[1], 1)
Programmes == last.data[1]

\* C16: a live programme has episode numbering only when its release date is
\* its start and it has a season; a tv programme has episode numbering; a
\* programme of any other type has none.
C16_EpisodeNumbering ==
    Built =>
        /\ Len(Programmes) = Len(Timelines)
        /\ \A i \in 1..Len(Timelines) :
              LET tl == Timelines[i] IN
              /\ tl.type = "live" =>
                    (Programmes[i].episode_num # <<>> =>
                        /\ tl.originalReleaseDate = tl.start
                        /\ tl.season # <<>>)
              /\ tl.type = "tv" => Programmes[i].episode_num # <<>>
              /\ tl.type \notin {"live", "tv"} => Programmes[i].episode_num = <<>>

\* The ids and numbers of a merged list, in order.
IdsAndNumbers(list) == [j \in 1..Len(list) |-> [id |-> list[j].id, number |-> list[j].number]]

\* C19: a merge that follows a merge, with no catalog fetched in between,
\* returns the ids and numbers the first one returned; and in every state
\* reached by a merge, merging the stored catalogs once more would return the
\* list just returned.
C19_MergeIdempotent ==
    /\ [][(IsCall /\ last.op = "channels_all" /\ last'.op = "channels_all") =>
             IdsAndNumbers(last'.data[1]) = IdsAndNumbers(last.data[1])]_vars
    /\ [](Merged =>
             IdsAndNumbers(ChannelsAllOp(all_channels).data) = IdsAndNumbers(last.data[1]))

\* A merge found the stored catalogs as a merge had left them, with a uk
\* channel at its offset number, and returned it with that number.
C19_Witness ==
    /\ Merged
    /\ calls >= 3
    /\ last.src = all_channels
    /\ \E j \in 1..Len(last.data[1]) :
          /\ last.data[1][j].country_code = "uk"
          /\ last.data[1][j].number = 7005

\* ------------------------------------------------------- catalog failures
\* The channels call of the latest step got a token and its channel-list
\* request, or after that its category request, raised or answered with a
\* status other than 200.
CatalogRequestFailed(call) ==
    /\ call.op = "channels"
    /\ call.token # None
    /\ \/ HttpFailed(call.env[1].chan)
       \/ HttpFailed(call.env[1].cat)

\* C21: a channels call whose channel-list request or category request fails
\* returns an error and no catalog, and leaves every stored catalog, the
\* region's own included, exactly as it was before the call.
C21_CatalogFailureKeepsStore ==
    [][(IsCall /\ CatalogRequestFailed(last')) =>
          /\ last'.error # None
          /\ last'.data = <<>>
          /\ all_channels' = all_channels]_vars

\* The category request of a channels call failed after the channel list had
\* been read, for a region whose catalog was stored by an earlier call.
C21_Witness ==
    /\ CatalogRequestFailed(last)
    /\ ~HttpFailed(last.env[1].chan)
    /\ last.src # <<>>
    /\ last.cc \in OdKeys(all_channels)
    /\ all_channels[OdIndex(all_channels, last.cc)].val # <<>>

\* ----------------------------------------------------------- merge frame
\* A stored catalog is in ascending order of number.
Ascending(catalog) ==
    \A i, j \in 1..Len(catalog) : i < j => catalog[i].number <= catalog[j].number

\* C23: after channels_all the stored catalogs are what they were when the
\* call began, every record with the number channels gave it, and every
\* stored catalog is still in ascending order of number.
C23_MergeLeavesCatalogs ==
    Merged =>
        /\ all_channels = last.src
        /\ \A k \in 1..Len(all_channels) : Ascending(all_channels[k].val)

\* ----------------------------------------------------------- empty catalog
\* update_epg has just run for a region whose channel-list request was
\* answered with no channel.
EmptyCatalogRun ==
    /\ last.op = "update_epg"
    /\ last.token # None
    /\ last.env[1].catalog = <<>>

\* C24: update_epg for a region with an empty catalog issues no timeline
\* request, raises nothing, returns normally and stores an empty page list
\* for the region.
C24_EmptyCatalogCompletes ==
    EmptyCatalogRun =>
        /\ last.timeline_requests = 0
        /\ last.ret = "None"
        /\ last.error = None
        /\ last.cc \in DOMAIN epg_data
        /\ epg_data[last.cc] = <<>>

\* --------------------------------------------------------------- guide file
\* The channel ids of the entries handed to read_epg_data, and the ids of the
\* station list, in the create_xml_file run of the latest step.
HandedIds ==
    UNION {{last.src[p].data[e].channelId : e \in 1..Len(last.src[p].data)} :
              p \in 1..Len(last.src)}
StationIds == {last.data[1][j].id : j \in 1..Len(last.data[1])}

\* C22: in a create_xml_file run over a list of regions, every channel id
\* with entries handed to read_epg_data is in the station list the channel
\* section is written from.
C22_StationsCoverProgrammes ==
    last.op = "create_xml_file" => HandedIds \subseteq StationIds
====
